---- MODULE Spec2Model ----
(***************************************************************************)
(* A model of the trace dispatcher (trace.go: T) and of the stack capture   *)
(* helper (Callers).  Strings are sequences of one-character strings, the   *)
(* listener registry is a sequence of entries guarded by a reader/writer    *)
(* lock, and every goroutine carries a stack of the calls it is inside.     *)
(***************************************************************************)
EXTENDS Integers, Sequences, FiniteSets, TLC

(* ------------------------------------------------------------------ *)
(* Priorities (trace.go, const block)                                  *)
(* ------------------------------------------------------------------ *)
PrioCritical == 2000
PrioError == 1000
PrioInfo == 0
PrioDebug == -1000
PrioVerbose == -2000
\* math.MaxInt32 and math.MinInt32
MaxInt32 == 2147483647
MinInt32 == -MaxInt32 - 1
PrioAll == MinInt32

Int32 == PrioAll .. MaxInt32

(* ------------------------------------------------------------------ *)
(* Bounds of the model                                                 *)
(* ------------------------------------------------------------------ *)
\* registrations in a run of one goroutine, and in a run of several
MaxHandles == 2
MaxHandlesConc == 1
\* registrations in a run that registers, unregisters and emits in turn
MaxHandlesReg == 3
MaxTime == 3
MaxFrames == 6
MaxHandlesNest == 2

\* the goroutines
Procs == {1, 2, 3}

(* ------------------------------------------------------------------ *)
(* Strings                                                             *)
(* ------------------------------------------------------------------ *)
Empty == << >>
Net == <<"n", "e", "t">>
NetHttp == <<"n", "e", "t", "/", "h">>
Network == <<"n", "e", "t", "w">>

\* strings.HasPrefix(s, prefix)
HasPrefix(s, prefix) ==
    /\ Len(s) >= Len(prefix)
    /\ SubSeq(s, 1, Len(prefix)) = prefix

\* strings.HasSuffix(s, suffix)
HasSuffix(s, suffix) ==
    /\ Len(s) >= Len(suffix)
    /\ SubSeq(s, Len(s) - Len(suffix) + 1, Len(s)) = suffix

Digit(d) == CASE d = 0 -> "0" [] d = 1 -> "1" [] d = 2 -> "2" [] d = 3 -> "3"
              [] d = 4 -> "4" [] d = 5 -> "5" [] d = 6 -> "6" [] d = 7 -> "7"
              [] d = 8 -> "8" [] d = 9 -> "9"

\* the %d verb on a non-negative integer
RECURSIVE Itoa(_)
Itoa(n) == IF n < 10 THEN <<Digit(n)>> ELSE Itoa(n \div 10) \o <<Digit(n % 10)>>

\* fmt.Sprintf(format, args...) for formats whose only verb is %d; the verb
\* is the two characters "%", "d"
RECURSIVE Sprintf(_, _)
Sprintf(format, args) ==
    IF format = << >> THEN << >>
    ELSE IF Len(format) >= 2 /\ format[1] = "%" /\ format[2] = "d" /\ args # << >>
         THEN Itoa(args[1]) \o Sprintf(SubSeq(format, 3, Len(format)), Tail(args))
         ELSE <<format[1]>> \o Sprintf(Tail(format), args)

(* ------------------------------------------------------------------ *)
(* Source locations of stack frames                                    *)
(* ------------------------------------------------------------------ *)
\* The suffix Callers looks for to recognise the frame of T
TraceGoSuffix == <<"github.com/", "seehuhn/", "trace/", "trace.go">>
\* The suffix Callers looks for to recognise the runtime's startup code
ProcCSuffix == <<"src/", "pkg/", "runtime/", "proc.c">>

TraceGoFile == <<"/go/", "src/">> \o TraceGoSuffix
CallersGoFile == <<"/go/", "src/", "github.com/", "seehuhn/", "trace/", "callers.go">>
ProcCFile == <<"/usr/", "go/">> \o ProcCSuffix
ProcGoFile == <<"/usr/", "go/", "src/", "runtime/", "proc.go">>
AppFile == <<"/go/", "src/", "app/", "main.go">>
LogFile == <<"/go/", "src/", "app/", "log.go">>

Frame(file, line) == [file |-> file, line |-> line]

\* frame of T while it runs a listener (trace.go line 121)
TFrame == Frame(TraceGoFile, 121)
\* frame of Callers while it calls runtime.Caller (line 20)
CallersFrame == Frame(CallersGoFile, 20)
\* frame of a listener function of the application
ListenerFrame == Frame(LogFile, 7)
\* frame of a function of the application that a listener calls
HelperFrame == Frame(LogFile, 31)

\* The frames below a top-level call of T, innermost first: the function
\* calling T, main.main and the runtime's startup frames.  The runtime the
\* code was written for keeps its startup code in src/pkg/runtime/proc.c.
BaseProcC == <<Frame(AppFile, 42), Frame(AppFile, 12), Frame(ProcCFile, 220),
               Frame(ProcCFile, 1394)>>
\* a goroutine started with "go f()": f calls T, nothing but startup below
BaseGoroutine == <<Frame(AppFile, 57), Frame(ProcCFile, 1394)>>
\* a runtime that keeps its startup code in src/runtime/proc.go
BaseProcGo == <<Frame(AppFile, 42), Frame(AppFile, 12), Frame(ProcGoFile, 250)>>
Bases == {BaseProcC, BaseGoroutine, BaseProcGo}

\* fmt.Sprintf("%s:%d", file, line)
Location(fr) == fr.file \o <<":">> \o Itoa(fr.line)

(* ------------------------------------------------------------------ *)
(* Callers (stack capture)                                             *)
(* ------------------------------------------------------------------ *)
\* runtime.Caller(i) seen from Callers: stack[1] is the frame of Callers
\* itself (i = 0), stack[2] its caller (i = 1), and so on; ok is FALSE past
\* the outermost frame.
CallerOk(stack, i) == i + 1 <= Len(stack)
CallerFile(stack, i) == stack[i + 1].file

\* (variant: a startup frame ends the walk before the call of T was seen too)
RECURSIVE CallersLoopStopsEarly(_, _, _, _)
CallersLoopStopsEarly(stack, i, callToTSeen, res) ==
    IF ~CallerOk(stack, i) THEN res
    ELSE IF HasSuffix(CallerFile(stack, i), ProcCSuffix) THEN res
    ELSE IF ~callToTSeen
         THEN CallersLoopStopsEarly(stack, i + 1,
                          HasSuffix(CallerFile(stack, i), TraceGoSuffix), res)
         ELSE CallersLoopStopsEarly(stack, i + 1, callToTSeen,
                               Append(res, Location(stack[i + 1])))

\* The loop of Callers from index i on, with the result so far
RECURSIVE CallersLoop(_, _, _, _)
CallersLoop(stack, i, callToTSeen, res) ==
    IF ~CallerOk(stack, i) THEN res
    ELSE IF ~callToTSeen
         THEN CallersLoop(stack, i + 1,
                          HasSuffix(CallerFile(stack, i), TraceGoSuffix), res)
         ELSE IF HasSuffix(CallerFile(stack, i), ProcCSuffix) THEN res
              ELSE CallersLoop(stack, i + 1, callToTSeen,
                               Append(res, Location(stack[i + 1])))

\* (variant: the walk started one frame further out)
CallersStartLate == 2 + 1

\* first index of the walk
CallersStart == 2

\* (variant: every frame from the first index on is collected)
CallersSeenFromStart(stack) == CallersLoop(stack, CallersStart, TRUE, << >>)

Callers(stack) == CallersLoop(stack, CallersStart, FALSE, << >>)

(* ------------------------------------------------------------------ *)
(* The filters of T                                                    *)
(* ------------------------------------------------------------------ *)
\* (variant: the comparison written as prio > c.prio)
PrioOkStrict(prio, c) == prio > c.prio

\* trace.go line 112: prio >= c.prio
PrioOk(prio, c) == prio >= c.prio

\* (variant: the prefix test alone, without the separator check)
PathOkNoBoundary(path, c) == HasPrefix(path, c.path)

\* (variant: the separator check applied to the empty subscription too)
PathOkNoEmptyCase(path, c) ==
    /\ HasPrefix(path, c.path)
    /\ ~(Len(path) > Len(c.path) /\ path[Len(c.path) + 1] # "/")

\* trace.go lines 112-115: strings.HasPrefix(path, c.path), and not the
\* "continue" of the separator check
PathOk(path, c) ==
    /\ HasPrefix(path, c.path)
    /\ ~(LET l == Len(c.path) IN l > 0 /\ Len(path) > l /\ path[l + 1] # "/")

Matches(path, prio, c) == PrioOk(prio, c) /\ PathOk(path, c)

(* ------------------------------------------------------------------ *)
(* State                                                               *)
(* ------------------------------------------------------------------ *)
VARIABLES
    listeners,    \* the registry: a sequence of entries [h, path, prio, cb]
    nextHandle,   \* the handle the next registration gets
    readerCount,  \* listenerMutex: number of read locks held
    w,            \* listenerMutex: the writer that holds or awaits the write
                  \* lock (0 when there is none)
    stk,          \* per goroutine: the calls of T, Register and Unregister it
                  \* is inside, outermost first
    now,          \* the wall clock read by time.Now()
    removed,      \* the handles an Unregister that completed was called with
    walk          \* a call of Callers on its own: the frames it is called
                  \* with, innermost first, and what it returned

vars == <<listeners, nextHandle, readerCount, w, stk, now, removed, walk>>

\* zero value of time.Time (var t time.Time)
ZeroTime == 0

\* no call of Callers on its own
NoWalk == [stack |-> << >>, res |-> << >>, done |-> FALSE]

\* What a listener function does when it is called
CbReturn == "return"     \* returns normally
CbPanic == "panic"       \* fails
CbCallers == "callers"   \* calls Callers() and returns
CbHelper == "helper"     \* calls a function that calls Callers(), and returns
CbEmit == "emit"         \* calls T and returns
CbRegister == "register"       \* calls Register and returns
CbUnregister == "unregister"   \* calls Unregister with its own handle and returns

Entry(h, path, prio, cb) == [h |-> h, path |-> path, prio |-> prio, cb |-> cb]

\* One call of T, Register or Unregister by a goroutine
NewCall(op, path, prio) ==
    [op |-> op, pc |-> "", path |-> path, prio |-> prio,
     format |-> << >>, args |-> << >>, base |-> << >>, cb |-> "", h |-> 0,
     ls |-> << >>, i |-> 0, first |-> TRUE, t |-> ZeroTime, msg |-> << >>,
     inv |-> << >>, nret |-> 0, nfmt |-> 0, tcall |-> 0, tlock |-> 0,
     panicked |-> FALSE, traces |-> << >>, gone |-> {}, before |-> << >>]

Top(p) == stk[p][Len(stk[p])]
InCall(p) == stk[p] # << >>
At(p, op, pc) == InCall(p) /\ Top(p).op = op /\ Top(p).pc = pc
SetTop(p, f) == [stk EXCEPT ![p][Len(stk[p])] = f]

\* The goroutine's frames, innermost first, seen by a Callers() that the
\* listener run by its innermost T calls
RECURSIVE FramesOf(_, _)
FramesOf(calls, n) ==
    IF n = 0 THEN << >>
    ELSE <<ListenerFrame, TFrame>> \o
         (IF n = 1 THEN calls[1].base ELSE FramesOf(calls, n - 1))
GoStack(p) == <<CallersFrame>> \o FramesOf(stk[p], Len(stk[p]))
\* the same when the listener calls Callers through another function
GoStackHelper(p) == <<CallersFrame, HelperFrame>> \o FramesOf(stk[p], Len(stk[p]))

Init ==
    /\ listeners = << >>
    /\ nextHandle = 1
    /\ readerCount = 0
    /\ w = 0
    /\ stk = [p \in Procs |-> << >>]
    /\ now = 1
    /\ removed = {}
    /\ walk = NoWalk

(* ------------------------------------------------------------------ *)
(* listenerMutex (sync.RWMutex)                                        *)
(* ------------------------------------------------------------------ *)
\* (variant: RLock that does not look at writers)
RLockAlways == TRUE

\* (variant: RLock that waits for a writer only when no read lock is held)
RLockReaderPreferring == w = 0 \/ readerCount > 0

\* RLock succeeds at once unless a writer holds or awaits the lock
RLockFree == w = 0

\* Unlock of the write lock wakes every reader blocked in RLock: each of
\* them holds a read lock from then on
Woken(q) == InCall(q) /\ Top(q).op = "T" /\ Top(q).pc = "rblocked"
WokenStk(s) ==
    [q \in Procs |->
        IF s[q] # << >> /\ s[q][Len(s[q])].op = "T" /\ s[q][Len(s[q])].pc = "rblocked"
        THEN [s[q] EXCEPT ![Len(s[q])].pc = "check", ![Len(s[q])].tlock = now]
        ELSE s[q]]
NWoken == Cardinality({q \in Procs : Woken(q)})

(* ------------------------------------------------------------------ *)
(* T                                                                   *)
(* ------------------------------------------------------------------ *)
\* A goroutine calls T(path, prio, format, args...)
TCall(p, path, prio, format, args, base) ==
    /\ ~InCall(p)
    /\ stk' = [stk EXCEPT ![p] =
                 <<[NewCall("T", path, prio) EXCEPT
                      !.pc = "rlock", !.format = format, !.args = args,
                      !.base = base, !.tcall = now, !.gone = removed]>>]
    /\ UNCHANGED <<listeners, nextHandle, readerCount, w, now, removed, walk>>

\* line 100: listenerMutex.RLock()
TRLock(p) ==
    /\ At(p, "T", "rlock")
    /\ IF RLockFree
       THEN /\ readerCount' = readerCount + 1
            /\ stk' = SetTop(p, [Top(p) EXCEPT !.pc = "check", !.tlock = now])
       ELSE /\ stk' = SetTop(p, [Top(p) EXCEPT !.pc = "rblocked"])
            /\ UNCHANGED readerCount
    /\ UNCHANGED <<listeners, nextHandle, w, now, removed, walk>>

\* (variant: the registry visited last entry first)
RECURSIVE RangeReversed(_)
RangeReversed(ls) ==
    IF ls = << >> THEN << >> ELSE Append(RangeReversed(Tail(ls)), ls[1])

\* line 111: the order in which "range listeners" visits the registry
RangeOrder(ls) == ls

\* lines 102-104 and 110-111: the early return on an empty registry (the
\* deferred RUnlock runs), else the range expression is evaluated
TCheck(p) ==
    /\ At(p, "T", "check")
    /\ IF Len(listeners) = 0
       THEN /\ readerCount' = readerCount - 1
            /\ stk' = SetTop(p, [Top(p) EXCEPT !.pc = "done"])
       ELSE /\ stk' = SetTop(p, [Top(p) EXCEPT !.pc = "loop", !.ls = RangeOrder(listeners),
                                               !.i = 1, !.first = TRUE])
            /\ UNCHANGED readerCount
    /\ UNCHANGED <<listeners, nextHandle, w, now, removed, walk>>

\* (variant: the time and the message computed for every matching entry)
FirstBlockEveryMatch(f) ==
    [f EXCEPT !.t = now, !.msg = Sprintf(f.format, f.args),
              !.nfmt = f.nfmt + 1, !.first = FALSE]

\* (variant: the time taken when T was called)
FirstBlockCallTime(f) ==
    IF f.first
    THEN [f EXCEPT !.t = f.tcall, !.msg = Sprintf(f.format, f.args),
                   !.nfmt = f.nfmt + 1, !.first = FALSE]
    ELSE f

\* lines 116-120: the time and the message, computed for the first
\* matching entry only; nfmt counts the executions of the block
FirstBlock(f) ==
    IF f.first
    THEN [f EXCEPT !.t = now, !.msg = Sprintf(f.format, f.args),
                   !.nfmt = f.nfmt + 1, !.first = FALSE]
    ELSE f

\* lines 111-121: one iteration of the loop up to the call of c.listener,
\* or the end of the loop and the return (the deferred RUnlock runs)
TLoop(p) ==
    /\ At(p, "T", "loop")
    /\ LET f == Top(p) IN
       IF f.i > Len(f.ls)
       THEN /\ readerCount' = readerCount - 1
            /\ stk' = SetTop(p, [f EXCEPT !.pc = "done"])
       ELSE LET c == f.ls[f.i] IN
            /\ UNCHANGED readerCount
            /\ IF ~Matches(f.path, f.prio, c)
               THEN stk' = SetTop(p, [f EXCEPT !.i = f.i + 1])
               ELSE LET g == FirstBlock(f)
                    IN stk' = SetTop(p,
                          [g EXCEPT !.pc = "cb",
                                    !.inv = Append(g.inv,
                                        [h |-> c.h, t |-> g.t, path |-> g.path,
                                         prio |-> g.prio, msg |-> g.msg,
                                         at |-> now])])
    /\ UNCHANGED <<listeners, nextHandle, w, now, removed, walk>>

\* (variant: T recovers from a failing listener and goes on with the loop)
TListenerRecovers(p) ==
    /\ At(p, "T", "cb")
    /\ LET f == Top(p)
           c == f.ls[f.i]
       IN stk' = SetTop(p, [f EXCEPT !.pc = "loop", !.i = f.i + 1,
                                     !.nret = f.nret + 1,
                                     !.traces =
                                        CASE c.cb = CbCallers ->
                                               Append(f.traces, Callers(GoStack(p)))
                                          [] c.cb = CbHelper ->
                                               Append(f.traces, Callers(GoStackHelper(p)))
                                          [] OTHER -> f.traces])
    /\ UNCHANGED <<listeners, nextHandle, readerCount, w, now, removed, walk>>

\* (variant: T drops an entry from the registry once its listener was run)
TListenerOneShot(p) ==
    /\ At(p, "T", "cb")
    /\ LET f == Top(p)
           c == f.ls[f.i]
       IN /\ IF c.cb = CbPanic
             THEN /\ stk' = SetTop(p, [f EXCEPT !.pc = "done", !.panicked = TRUE])
                  /\ readerCount' = readerCount - 1
             ELSE /\ stk' = SetTop(p, [f EXCEPT !.pc = "loop", !.i = f.i + 1,
                                                !.nret = f.nret + 1])
                  /\ UNCHANGED readerCount
          /\ listeners' = SelectSeq(listeners, LAMBDA e : e.h # c.h)
    /\ UNCHANGED <<nextHandle, w, now, removed, walk>>

\* line 121: the listener function runs to its end.  A listener that fails
\* unwinds T: nothing recovers, the deferred RUnlock runs.
\* (variant: the read lock is not released when a listener fails)
TListenerNoDefer(p) ==
    /\ At(p, "T", "cb")
    /\ LET f == Top(p)
           c == f.ls[f.i]
       IN IF c.cb = CbPanic
          THEN stk' = SetTop(p, [f EXCEPT !.pc = "done", !.panicked = TRUE])
          ELSE stk' = SetTop(p, [f EXCEPT !.pc = "loop", !.i = f.i + 1,
                                          !.nret = f.nret + 1])
    /\ UNCHANGED <<listeners, nextHandle, readerCount, w, now, removed, walk>>

TListener(p) ==
    /\ At(p, "T", "cb")
    /\ LET f == Top(p)
           c == f.ls[f.i]
       IN CASE c.cb = CbReturn ->
                 /\ stk' = SetTop(p, [f EXCEPT !.pc = "loop", !.i = f.i + 1,
                                               !.nret = f.nret + 1])
                 /\ UNCHANGED readerCount
            [] c.cb = CbCallers ->
                 /\ stk' = SetTop(p, [f EXCEPT !.pc = "loop", !.i = f.i + 1,
                                               !.nret = f.nret + 1,
                                               !.traces = Append(f.traces, Callers(GoStack(p)))])
                 /\ UNCHANGED readerCount
            [] c.cb = CbHelper ->
                 /\ stk' = SetTop(p, [f EXCEPT !.pc = "loop", !.i = f.i + 1,
                                               !.nret = f.nret + 1,
                                               !.traces = Append(f.traces, Callers(GoStackHelper(p)))])
                 /\ UNCHANGED readerCount
            [] c.cb = CbPanic ->
                 /\ stk' = SetTop(p, [f EXCEPT !.pc = "done", !.panicked = TRUE])
                 /\ readerCount' = readerCount - 1
            [] OTHER -> FALSE
    /\ UNCHANGED <<listeners, nextHandle, w, now, removed, walk>>

\* the call returns (or the failure reaches the caller)
Return(p) ==
    /\ InCall(p)
    /\ Top(p).pc = "done"
    /\ stk' = [stk EXCEPT ![p] = SubSeq(stk[p], 1, Len(stk[p]) - 1)]
    /\ UNCHANGED <<listeners, nextHandle, readerCount, w, now, removed, walk>>

\* time passes
Tick ==
    /\ now < MaxTime
    /\ now' = now + 1
    /\ UNCHANGED <<listeners, nextHandle, readerCount, w, stk, removed, walk>>

(* ------------------------------------------------------------------ *)
(* Register and Unregister                                             *)
(* ------------------------------------------------------------------ *)
\* A goroutine calls Register(path, minPriority, callback)
RegisterCall(p, path, prio, cb, max) ==
    /\ ~InCall(p)
    /\ nextHandle <= max
    /\ stk' = [stk EXCEPT ![p] =
                 <<[NewCall("Register", path, prio) EXCEPT !.pc = "wlock", !.cb = cb]>>]
    /\ UNCHANGED <<listeners, nextHandle, readerCount, w, now, removed, walk>>

\* A goroutine calls Unregister(handle)
UnregisterCall(p, h) ==
    /\ ~InCall(p)
    /\ stk' = [stk EXCEPT ![p] =
                 <<[NewCall("Unregister", << >>, 0) EXCEPT !.pc = "wlock", !.h = h]>>]
    /\ UNCHANGED <<listeners, nextHandle, readerCount, w, now, removed, walk>>

IsWriter(p) == InCall(p) /\ Top(p).op \in {"Register", "Unregister"}

\* (variant: the writer does not wait for the read locks to be released)
WLockBarging(p) ==
    /\ IsWriter(p)
    /\ Top(p).pc = "wlock"
    /\ w = 0
    /\ w' = p
    /\ stk' = SetTop(p, [Top(p) EXCEPT !.pc = "wcs"])
    /\ UNCHANGED <<listeners, nextHandle, readerCount, now, removed, walk>>

\* listenerMutex.Lock(), first half: the writer is the one writer at the
\* lock; readers arriving from now on wait.  It owns the lock at once when
\* no read lock is held.
WLock(p) ==
    /\ IsWriter(p)
    /\ Top(p).pc = "wlock"
    /\ w = 0
    /\ w' = p
    /\ stk' = SetTop(p, [Top(p) EXCEPT !.pc = IF readerCount = 0 THEN "wcs" ELSE "wdrain"])
    /\ UNCHANGED <<listeners, nextHandle, readerCount, now, removed, walk>>

\* (variant: the waiting writer goes on while read locks are held)
WDrainIgnoresReaders(p) ==
    /\ IsWriter(p)
    /\ Top(p).pc = "wdrain"
    /\ stk' = SetTop(p, [Top(p) EXCEPT !.pc = "wcs"])
    /\ UNCHANGED <<listeners, nextHandle, readerCount, w, now, removed, walk>>

\* listenerMutex.Lock(), second half: the last read lock was released
WDrain(p) ==
    /\ IsWriter(p)
    /\ Top(p).pc = "wdrain"
    /\ readerCount = 0
    /\ stk' = SetTop(p, [Top(p) EXCEPT !.pc = "wcs"])
    /\ UNCHANGED <<listeners, nextHandle, readerCount, w, now, removed, walk>>

\* (variant: the new entry put first)
Prepended(ls, e) == <<e>> \o ls

\* The registry after a registration
Appended(ls, e) == Append(ls, e)

\* Register, under the write lock: a new entry at the end
RegisterDo(p) ==
    /\ At(p, "Register", "wcs")
    /\ LET f == Top(p) IN
       /\ listeners' = Appended(listeners, Entry(nextHandle, f.path, f.prio, f.cb))
       /\ stk' = SetTop(p, [f EXCEPT !.pc = "unlock", !.h = nextHandle,
                                     !.before = listeners, !.gone = removed])
    /\ nextHandle' = nextHandle + 1
    /\ UNCHANGED <<readerCount, w, now, removed, walk>>

\* (variant: nothing removed)
WithoutNothing(ls, h) == ls

\* The registry without the entry of handle h
RECURSIVE Without(_, _)
Without(ls, h) ==
    IF ls = << >> THEN << >>
    ELSE IF ls[1].h = h THEN Without(Tail(ls), h)
         ELSE <<ls[1]>> \o Without(Tail(ls), h)

\* Unregister, under the write lock: the entry is removed when present
UnregisterDo(p) ==
    /\ At(p, "Unregister", "wcs")
    /\ listeners' = Without(listeners, Top(p).h)
    /\ stk' = SetTop(p, [Top(p) EXCEPT !.pc = "unlock", !.before = listeners,
                                       !.gone = removed])
    /\ UNCHANGED <<nextHandle, readerCount, w, now, removed, walk>>

\* listenerMutex.Unlock()
WUnlock(p) ==
    /\ IsWriter(p)
    /\ Top(p).pc = "unlock"
    /\ w' = 0
    /\ readerCount' = readerCount + NWoken
    /\ stk' = WokenStk(SetTop(p, [Top(p) EXCEPT !.pc = "done"]))
    /\ removed' = IF Top(p).op = "Unregister" THEN removed \cup ({Top(p).h} \ {0})
                  ELSE removed
    /\ UNCHANGED <<listeners, nextHandle, now, walk>>

(* ------------------------------------------------------------------ *)
(* Specifications                                                      *)
(* ------------------------------------------------------------------ *)
\* the handles a caller can hold: the zero handle and those issued so far
Handles == 0 .. (nextHandle - 1)

Format0 == <<"x">>
FormatD == <<"n", "=", "%", "d">>

\* One goroutine; every subscribed path, emitted path and priority
SubPaths == {Empty, Net, NetHttp}
SubPrios == {PrioAll, PrioDebug, PrioInfo}
EmitPaths == {Net, NetHttp, Network}
EmitPrios == {PrioAll, PrioDebug, PrioInfo, MaxInt32}

Register1 ==
    \E path \in SubPaths, prio \in SubPrios, cb \in {CbReturn, CbPanic} :
        RegisterCall(1, path, prio, cb, MaxHandles)
Unregister1 == \E h \in Handles : UnregisterCall(1, h)
T1 == \E path \in EmitPaths, prio \in EmitPrios : TCall(1, path, prio, Format0, << >>, BaseProcC)

Next ==
    \/ Register1
    \/ Unregister1
    \/ T1
    \/ WLock(1)
    \/ RegisterDo(1)
    \/ UnregisterDo(1)
    \/ WUnlock(1)
    \/ TRLock(1)
    \/ TCheck(1)
    \/ TLoop(1)
    \/ TListener(1)
    \/ Return(1)

Spec == Init /\ [][Next]_vars

\* One goroutine and a clock: listeners that call Callers, two message
\* templates, callers of T at several depths
RegisterTime ==
    \E prio \in {PrioInfo, PrioError}, cb \in {CbReturn, CbCallers, CbHelper} :
        RegisterCall(1, Net, prio, cb, MaxHandles)
TTime ==
    \E fa \in {<<Format0, << >> >>, <<FormatD, <<42>> >>}, base \in Bases :
        TCall(1, NetHttp, PrioInfo, fa[1], fa[2], base)

NextTime ==
    \/ RegisterTime
    \/ Unregister1
    \/ TTime
    \/ WLock(1)
    \/ RegisterDo(1)
    \/ UnregisterDo(1)
    \/ WUnlock(1)
    \/ TRLock(1)
    \/ TCheck(1)
    \/ TLoop(1)
    \/ TListener(1)
    \/ Return(1)
    \/ Tick

SpecTime == Init /\ [][NextTime]_vars

\* Three goroutines run concurrently: 1 and 2 emit, 2 and 3 register and
\* unregister
Emitters == {1, 2}
Writers == {2, 3}
RegisterConc == \E p \in Writers : RegisterCall(p, Net, PrioInfo, CbReturn, MaxHandlesConc)
UnregisterConc == \E p \in Writers, h \in Handles : UnregisterCall(p, h)
TConc == \E p \in Emitters : TCall(p, NetHttp, PrioInfo, Format0, << >>, BaseProcC)

NextConc ==
    \/ RegisterConc
    \/ UnregisterConc
    \/ TConc
    \/ \E p \in Procs :
          \/ WLock(p)
          \/ WDrain(p)
          \/ RegisterDo(p)
          \/ UnregisterDo(p)
          \/ WUnlock(p)
          \/ TRLock(p)
          \/ TCheck(p)
          \/ TLoop(p)
          \/ TListener(p)
          \/ Return(p)

SpecConc == Init /\ [][NextConc]_vars

\* One goroutine that registers, unregisters and emits in turn
RegisterReg ==
    \E path \in {Net, NetHttp} : RegisterCall(1, path, PrioInfo, CbReturn, MaxHandlesReg)
TReg == TCall(1, NetHttp, PrioInfo, Format0, << >>, BaseProcC)

NextReg ==
    \/ RegisterReg
    \/ Unregister1
    \/ TReg
    \/ WLock(1)
    \/ RegisterDo(1)
    \/ UnregisterDo(1)
    \/ WUnlock(1)
    \/ TRLock(1)
    \/ TCheck(1)
    \/ TLoop(1)
    \/ TListener(1)
    \/ Return(1)

SpecReg == Init /\ [][NextReg]_vars

\* Callers on its own, called with every sequence of at most MaxFrames
\* frames: the frame of T, a file that ends in trace.go in another
\* package, the startup code in proc.c, startup code in proc.go, and a
\* function of the application
OtherTraceGoFile == <<"/go/", "src/", "other/", "trace/", "trace.go">>
FrameKinds == {TFrame, Frame(OtherTraceGoFile, 88), Frame(ProcCFile, 220),
               Frame(ProcGoFile, 250), Frame(AppFile, 42)}
Stacks == UNION {[1 .. n -> FrameKinds] : n \in 0 .. MaxFrames}

InitCallers ==
    /\ listeners = << >>
    /\ nextHandle = 1
    /\ readerCount = 0
    /\ w = 0
    /\ stk = [p \in Procs |-> << >>]
    /\ now = 1
    /\ removed = {}
    /\ walk \in {[stack |-> s, res |-> << >>, done |-> FALSE] : s \in Stacks}

\* Callers() runs to its return
CallersRun ==
    /\ ~walk.done
    /\ walk' = [walk EXCEPT !.res = Callers(walk.stack), !.done = TRUE]
    /\ UNCHANGED <<listeners, nextHandle, readerCount, w, stk, now, removed>>

NextCallers == CallersRun

SpecCallers == InitCallers /\ [][NextCallers]_vars

\* Listeners that call back into the package.  Goroutine 1 emits on
\* "net/http"; goroutine 3 registers and unregisters.  A listener on
\* "net/http" calls T for "net" (which its own entry does not match),
\* Register, or Unregister with its own handle.
NestedCall(c) ==
    CASE c.cb = CbEmit ->
           [NewCall("T", Net, PrioInfo) EXCEPT
              !.pc = "rlock", !.format = Format0, !.base = <<ListenerFrame>>,
              !.tcall = now, !.gone = removed]
      [] c.cb = CbRegister ->
           [NewCall("Register", Net, PrioInfo) EXCEPT !.pc = "wlock", !.cb = CbReturn]
      [] c.cb = CbUnregister ->
           [NewCall("Unregister", << >>, 0) EXCEPT !.pc = "wlock", !.h = c.h]

\* line 121: the listener is running and calls T, Register or Unregister;
\* the call of T that runs it waits for it to return
TListenerCalls(p) ==
    /\ At(p, "T", "cb")
    /\ LET f == Top(p)
           c == f.ls[f.i]
       IN /\ c.cb \in {CbEmit, CbRegister, CbUnregister}
          /\ stk' = [stk EXCEPT ![p] =
                        Append(SubSeq(stk[p], 1, Len(stk[p]) - 1),
                               [f EXCEPT !.pc = "cbwait"]) \o <<NestedCall(c)>>]
    /\ UNCHANGED <<listeners, nextHandle, readerCount, w, now, removed, walk>>

\* line 121: the call made by the listener has returned, and the listener
\* returns
TListenerResumes(p) ==
    /\ At(p, "T", "cbwait")
    /\ stk' = SetTop(p, [Top(p) EXCEPT !.pc = "loop", !.i = Top(p).i + 1,
                                        !.nret = Top(p).nret + 1])
    /\ UNCHANGED <<listeners, nextHandle, readerCount, w, now, removed, walk>>

NestEntries == {<<Net, CbReturn>>, <<NetHttp, CbEmit>>, <<NetHttp, CbRegister>>,
                <<NetHttp, CbUnregister>>}
RegisterNest ==
    \E e \in NestEntries : RegisterCall(3, e[1], PrioInfo, e[2], MaxHandlesNest)
UnregisterNest == \E h \in Handles : UnregisterCall(3, h)
TNest == TCall(1, NetHttp, PrioInfo, Format0, << >>, BaseProcC)

NextNest ==
    \/ RegisterNest
    \/ UnregisterNest
    \/ TNest
    \/ \E p \in {1, 3} :
          \/ WLock(p)
          \/ WDrain(p)
          \/ RegisterDo(p)
          \/ UnregisterDo(p)
          \/ WUnlock(p)
          \/ TRLock(p)
          \/ TCheck(p)
          \/ TLoop(p)
          \/ TListener(p)
          \/ TListenerCalls(p)
          \/ TListenerResumes(p)
          \/ Return(p)

SpecNest == Init /\ [][NextNest]_vars

(* ------------------------------------------------------------------ *)
(* Vocabulary of the properties                                        *)
(* ------------------------------------------------------------------ *)
\* the calls in progress, and the calls of T among them
AllCalls == UNION {{stk[p][k] : k \in DOMAIN stk[p]} : p \in Procs}
TCalls == {f \in AllCalls : f.op = "T"}

\* a call of T that has ended, by a return or by a listener's failure
Ended(f) == f.pc = "done"
Returned(f) == f.pc = "done" /\ ~f.panicked

\* the handles of the listeners a call of T has invoked, in order
RECURSIVE HandlesOf(_)
HandlesOf(seq) == IF seq = << >> THEN << >> ELSE <<seq[1].h>> \o HandlesOf(Tail(seq))
Invoked(f) == HandlesOf(f.inv)
InvokedSet(f) == {f.inv[k].h : k \in DOMAIN f.inv}

\* the position of the entry of handle h in a registry
PosIn(ls, h) == CHOOSE k \in DOMAIN ls : ls[k].h = h
EntryOf(ls, h) == ls[PosIn(ls, h)]
HandleSet(ls) == {ls[k].h : k \in DOMAIN ls}

\* path starts with sub followed by a separator
UnderSubtree(path, sub) ==
    /\ Len(path) > Len(sub)
    /\ \A k \in 1 .. Len(sub) : path[k] = sub[k]
    /\ path[Len(sub) + 1] = "/"

\* the two conditions as the specification words them
SpecSelects(path, prio, c) ==
    /\ prio >= c.prio
    /\ (path = c.path \/ UnderSubtree(path, c.path))

\* the same, with the empty subscription that accepts every path
Selects(path, prio, c) ==
    /\ prio >= c.prio
    /\ (c.path = << >> \/ path = c.path \/ UnderSubtree(path, c.path))

(* ------------------------------------------------------------------ *)
(* C1                                                                  *)
(* ------------------------------------------------------------------ *)
\* C1, as stated: a call of T that has ended has invoked exactly the
\* registered entries with priority >= minPriority and (path equal to the
\* subscribed path or path starting with the subscribed path and "/").
C1_AsStated ==
    \A f \in TCalls :
        Returned(f) =>
            InvokedSet(f) = {listeners[k].h : k \in
                                {j \in DOMAIN listeners :
                                    SpecSelects(f.path, f.prio, listeners[j])}}

\* C1, amended: no entry is ever invoked unless priority >= minPriority and
\* (its subscribed path is empty, or equals the path, or the path starts
\* with it followed by "/"); no entry is invoked twice; and a call of T that
\* returns without a listener failing has invoked every such entry.  "net"
\* receives "net" and "net/http", never "network".
C1_ExactSubset ==
    \A f \in TCalls :
        LET sel == {k \in DOMAIN listeners : Selects(f.path, f.prio, listeners[k])}
        IN /\ InvokedSet(f) \subseteq {listeners[k].h : k \in sel}
           /\ Cardinality(InvokedSet(f)) = Len(f.inv)
           /\ Returned(f) => InvokedSet(f) = {listeners[k].h : k \in sel}
           /\ \A k \in DOMAIN listeners :
                 (listeners[k].path = Net /\ f.path = Network)
                     => listeners[k].h \notin InvokedSet(f)

\* A call of T for "network" has returned: it skipped the entry subscribed
\* to "net" and invoked the entry with the empty subscription
C1_Witness ==
    \E f \in TCalls :
        /\ Returned(f)
        /\ f.path = Network
        /\ Len(listeners) = 2
        /\ listeners[1].path = Net /\ f.prio >= listeners[1].prio
        /\ listeners[2].path = << >>
        /\ Invoked(f) = <<listeners[2].h>>

(* ------------------------------------------------------------------ *)
(* C2                                                                  *)
(* ------------------------------------------------------------------ *)
\* C2: within one call of T the listeners are invoked in the order of
\* their registration (their order in the registry), each one after the
\* one before it has returned.  With A on "net" at Info registered before B
\* on "net/http" at Debug, T("net/http", Info) invokes A then B and
\* T("net", Debug) invokes neither.
C2_RegistrationOrder ==
    \A f \in TCalls :
        /\ \A j, k \in DOMAIN f.inv :
              j < k => PosIn(listeners, f.inv[j].h) < PosIn(listeners, f.inv[k].h)
        /\ f.nret = IF f.pc = "cb" \/ f.panicked THEN Len(f.inv) - 1 ELSE Len(f.inv)
        /\ (/\ Returned(f)
            /\ Len(listeners) = 2
            /\ listeners[1].path = Net /\ listeners[1].prio = PrioInfo
            /\ listeners[1].cb = CbReturn
            /\ listeners[2].path = NetHttp /\ listeners[2].prio = PrioDebug)
           => /\ (f.path = NetHttp /\ f.prio = PrioInfo)
                    => Invoked(f) = <<listeners[1].h, listeners[2].h>>
              /\ (f.path = Net /\ f.prio = PrioDebug) => Invoked(f) = << >>

\* A (on "net" at Info) then B (on "net/http" at Debug) were invoked, in
\* that order, by T("net/http", Info)
C2_Witness ==
    \E f \in TCalls :
        /\ Returned(f)
        /\ f.path = NetHttp /\ f.prio = PrioInfo
        /\ Len(listeners) = 2
        /\ listeners[1].path = Net /\ listeners[1].prio = PrioInfo
        /\ listeners[2].path = NetHttp /\ listeners[2].prio = PrioDebug
        /\ Len(f.inv) = 2

(* ------------------------------------------------------------------ *)
(* C6                                                                  *)
(* ------------------------------------------------------------------ *)
\* the entries of the registry that T visits after the entry of handle h
After(ls, h) == {ls[k].h : k \in {j \in DOMAIN ls : j > PosIn(ls, h)}}

\* C6: when the callback of a matching entry fails, the call of T ends with
\* that failure (nothing catches it), no entry after the failing one is
\* invoked by that call, and the matching entries before it have been
\* invoked and have returned.
C6_FailurePropagates ==
    \A f \in TCalls :
        /\ \A k \in DOMAIN f.inv :
              (/\ EntryOf(listeners, f.inv[k].h).cb = CbPanic
               /\ (k < Len(f.inv) \/ f.pc # "cb"))
                  => /\ f.panicked
                     /\ Ended(f)
                     /\ k = Len(f.inv)
        /\ f.panicked =>
              LET h == f.inv[Len(f.inv)].h IN
              /\ EntryOf(listeners, h).cb = CbPanic
              /\ InvokedSet(f) \cap After(listeners, h) = {}
              /\ \A j \in DOMAIN listeners :
                    (j < PosIn(listeners, h) /\ Selects(f.path, f.prio, listeners[j]))
                        => listeners[j].h \in InvokedSet(f)
              /\ f.nret = Len(f.inv) - 1

\* A call of T ended by the failure of the first of two matching listeners:
\* the second was not invoked
C6_Witness ==
    \E f \in TCalls :
        /\ f.panicked
        /\ Len(listeners) = 2
        /\ \A k \in 1 .. 2 : Selects(f.path, f.prio, listeners[k])
        /\ Invoked(f) = <<listeners[1].h>>

(* ------------------------------------------------------------------ *)
(* C8                                                                  *)
(* ------------------------------------------------------------------ *)
\* C8: the named priorities are ordered Critical > Error > Info > Debug >
\* Verbose > All, All is the least 32-bit value, and the priority filter is
\* the signed comparison priority >= minPriority: an entry is invoked only
\* with priority >= its minimum, and a call of T that returns has invoked
\* every entry registered with All whose subscribed path matches, whatever
\* 32-bit priority was emitted.
C8_PriorityFilter ==
    /\ PrioCritical > PrioError /\ PrioError > PrioInfo /\ PrioInfo > PrioDebug
    /\ PrioDebug > PrioVerbose /\ PrioVerbose > PrioAll
    /\ PrioAll + 2 ^ 30 = -(2 ^ 30)
    /\ \A f \in TCalls :
          /\ f.prio \in Int32
          /\ \A k \in DOMAIN f.inv :
                f.prio >= EntryOf(listeners, f.inv[k].h).prio
          /\ Returned(f) =>
                \A k \in DOMAIN listeners :
                    LET c == listeners[k] IN
                    (/\ c.path = << >> \/ f.path = c.path \/ UnderSubtree(f.path, c.path)
                     /\ \/ c.prio = PrioAll
                        \/ f.prio >= c.prio)
                        => c.h \in InvokedSet(f)

\* An entry registered with All was invoked for an emission at the least
\* 32-bit priority
C8_Witness ==
    \E f \in TCalls :
        /\ Returned(f)
        /\ f.prio = MinInt32
        /\ \E k \in DOMAIN f.inv : EntryOf(listeners, f.inv[k].h).prio = PrioAll

(* ------------------------------------------------------------------ *)
(* C3                                                                  *)
(* ------------------------------------------------------------------ *)
\* C3: a call of T computes the time and formats the message at most once
\* however many listeners match, and not at all when none matches; on an
\* empty registry it returns at once: no formatting, no callback, and the
\* loop is never entered.
C3_FormatAtMostOnce ==
    \A f \in TCalls :
        /\ f.nfmt <= 1
        /\ f.nfmt = (IF f.inv = << >> THEN 0 ELSE 1)
        /\ (f.nfmt = 0) = (f.t = ZeroTime /\ f.msg = << >>)
        /\ listeners = << >> =>
              /\ f.nfmt = 0
              /\ f.inv = << >>
              /\ f.pc \in {"rlock", "check", "done"}
              /\ f.i = 0

\* A call of T has invoked two listeners and has formatted once
C3_Witness ==
    \E f \in TCalls :
        /\ Returned(f)
        /\ Len(f.inv) = 2
        /\ f.nfmt = 1

\* A call of T has returned from a registry of two entries, neither of which
\* matched, without formatting
C3_WitnessNoMatch ==
    \E f \in TCalls :
        /\ Returned(f)
        /\ Len(f.ls) = 2
        /\ f.inv = << >>
        /\ f.nfmt = 0

C10_OneTimestampOneMessage ==
    \A f \in TCalls :
        /\ \A k \in DOMAIN f.inv :
              /\ f.inv[k].t = f.inv[1].t
              /\ f.inv[k].msg = f.inv[1].msg
              /\ f.inv[k].path = f.path
              /\ f.inv[k].prio = f.prio
              /\ f.inv[k].at >= f.inv[k].t
        /\ f.inv # << >> =>
              /\ f.inv[1].t = f.inv[1].at
              /\ f.inv[1].t >= f.tlock
              /\ f.tlock >= f.tcall
              /\ f.format = Format0 => f.inv[1].msg = <<"x">>
              /\ (f.format = FormatD /\ f.args = <<42>>) =>
                    f.inv[1].msg = <<"n", "=", "4", "2">>

\* Two callbacks were invoked at different times by a call of T that was
\* called before the time it reports
C10_Witness ==
    \E f \in TCalls :
        /\ Len(f.inv) = 2
        /\ f.inv[2].at > f.inv[1].at
        /\ f.inv[1].t > f.tcall
        /\ f.format = FormatD

(* ------------------------------------------------------------------ *)
(* C4                                                                  *)
(* ------------------------------------------------------------------ *)
\* the calls of Unregister that have done their work and still hold the
\* write lock
Unregistering == {f \in AllCalls : f.op = "Unregister" /\ f.pc = "unlock"}

\* C4: a call of T never invokes the callback of an entry whose Unregister
\* had completed when T was called, whatever was registered, removed or
\* emitted in between; an Unregister of a handle that is unknown or was
\* removed before fails in no way and leaves the registry as it was.
C4_UnregisterIsFinal ==
    /\ \A f \in TCalls : InvokedSet(f) \cap f.gone = {}
    /\ \A h \in removed : h \notin HandleSet(listeners)
    /\ \A f \in AllCalls : f.op = "Unregister" => ~f.panicked
    /\ \A f \in Unregistering :
          (f.h \in f.gone \/ f.h \notin HandleSet(f.before)) => listeners = f.before

\* A call of T that began after an Unregister had completed has returned
\* having invoked another entry, registered later
C4_Witness ==
    \E f \in TCalls :
        /\ Returned(f)
        /\ f.gone # {}
        /\ \E k \in DOMAIN f.inv : \A h \in f.gone : f.inv[k].h > h

(* ------------------------------------------------------------------ *)
(* C5                                                                  *)
(* ------------------------------------------------------------------ *)
\* the goroutines between RLock and RUnlock, and those between Lock and
\* Unlock
Reading == {p \in Procs : InCall(p) /\ Top(p).op = "T"
                             /\ Top(p).pc \in {"check", "loop", "cb"}}
Writing == {p \in Procs : IsWriter(p) /\ Top(p).pc \in {"wcs", "unlock"}}

\* C5: while a call of T is between RLock and RUnlock no Register or
\* Unregister is in its critical section, and the list the call iterates
\* over is the registry, as the completed registrations and removals left
\* it; no two Register/Unregister calls are in their critical sections at
\* once.  (Two calls of T can be in the loop together: the witness.)
C5_ReadersExcludeWriters ==
    /\ Cardinality(Writing) <= 1
    /\ Writing # {} => Reading = {}
    /\ Writing \subseteq {w}
    /\ readerCount = Cardinality(Reading)
    /\ \A p \in Reading : Top(p).pc \in {"loop", "cb"} => Top(p).ls = listeners

\* Two calls of T are running a listener at the same time, while a writer
\* waits for them
C5_Witness ==
    /\ Cardinality({p \in Reading : Top(p).pc = "cb"}) = 2
    /\ \E p \in Procs : IsWriter(p) /\ Top(p).pc = "wdrain"

(* ------------------------------------------------------------------ *)
(* C9                                                                  *)
(* ------------------------------------------------------------------ *)
\* seq without its k-th element
Dropped(seq, k) == SubSeq(seq, 1, k - 1) \o SubSeq(seq, k + 1, Len(seq))

\* C9: Register adds exactly one entry, at the end, and leaves the entries
\* that were there as they were; its handle is the handle of no entry
\* registered before, so the handles of the registry are distinct;
\* Unregister(handle) removes the entry of that handle and nothing else,
\* the others keeping their order.
C9_RegisterAppendsUnregisterRemovesOne ==
    /\ \A j, k \in DOMAIN listeners : j # k => listeners[j].h # listeners[k].h
    /\ \A f \in AllCalls :
          /\ (f.op = "Register" /\ f.pc = "unlock") =>
                /\ Len(listeners) = Len(f.before) + 1
                /\ SubSeq(listeners, 1, Len(f.before)) = f.before
                /\ listeners[Len(listeners)] = Entry(f.h, f.path, f.prio, f.cb)
                /\ f.h \notin HandleSet(f.before) \cup f.gone \cup {0}
          /\ (f.op = "Unregister" /\ f.pc = "unlock") =>
                IF \E k \in DOMAIN f.before : f.before[k].h = f.h
                THEN listeners = Dropped(f.before, PosIn(f.before, f.h))
                ELSE listeners = f.before

\* An Unregister has removed the second of three entries
C9_Witness ==
    \E f \in Unregistering :
        /\ Len(f.before) = 3
        /\ f.h = f.before[2].h
        /\ listeners = <<f.before[1], f.before[3]>>

(* ------------------------------------------------------------------ *)
(* C11                                                                 *)
(* ------------------------------------------------------------------ *)
\* a step that goroutine p takes by calling T or inside a call of T
TStep(p) ==
    \/ ~InCall(p) /\ stk'[p] # << >> /\ stk'[p][1].op = "T"
    \/ InCall(p) /\ Top(p).op = "T" /\ stk'[p] # stk[p]

\* a step in which a Register or an Unregister does its work under the
\* write lock
WriterStep(p) ==
    /\ IsWriter(p)
    /\ Top(p).pc = "wcs"
    /\ stk'[p] # stk[p]

\* C11: no step of T changes the registry (entries, their fields and their
\* order), whether none, some or all listeners match; the registry changes
\* only in a step of Register or Unregister.
C11_EmitLeavesRegistry ==
    [][/\ \A p \in Procs : TStep(p) => listeners' = listeners
       /\ listeners' # listeners => \E p \in Procs : WriterStep(p)]_vars

\* A call of T has returned having invoked one of two listeners, and the
\* registry is the one it iterated over
C11_Witness ==
    \E f \in TCalls :
        /\ Returned(f)
        /\ Len(f.ls) = 2
        /\ Len(f.inv) = 1
        /\ listeners = f.ls

(* ------------------------------------------------------------------ *)
(* C12                                                                 *)
(* ------------------------------------------------------------------ *)
\* goroutine p is in a call of T at the given place
TAt(p, pc) == InCall(p) /\ Top(p).op = "T" /\ Top(p).pc = pc
\* the same in the next state
TAtNext(p, pc) ==
    /\ stk'[p] # << >>
    /\ stk'[p][Len(stk'[p])].op = "T"
    /\ stk'[p][Len(stk'[p])].pc = pc

\* the writer at the lock completes: it releases the write lock
Completes(q) ==
    /\ IsWriter(q)
    /\ Top(q).pc = "unlock"
    /\ w = q
    /\ w' = 0

\* C12: while a listener run by a call of T has not returned, the call
\* holds the read lock and no Register or Unregister is past Lock; a
\* writer waiting at the lock goes on only when no read lock is held; a
\* call of T that asks for the read lock while a writer waits at the lock
\* or holds it is blocked, and stays blocked until that writer releases the
\* lock; a call of T that holds the read lock can go on whatever writer
\* waits.
C12_SlowListenerBlocksWriterAndLaterReaders ==
    /\ [](\A p \in Procs :
            /\ TAt(p, "cb") => (readerCount >= 1 /\ Writing = {})
            /\ TAt(p, "rblocked") => w # 0
            /\ p \in Reading => ENABLED (TCheck(p) \/ TLoop(p) \/ TListener(p)))
    /\ [][\A p \in Procs :
            /\ (IsWriter(p) /\ Top(p).pc = "wdrain" /\ stk'[p] # stk[p])
                  => (readerCount = 0 /\ \A q \in Procs : ~TAt(q, "cb"))
            /\ (TAt(p, "rlock") /\ w # 0 /\ stk'[p] # stk[p])
                  => (TAtNext(p, "rblocked") /\ readerCount' = readerCount)
            /\ (TAt(p, "rblocked") /\ stk'[p] # stk[p])
                  => (TAtNext(p, "check") /\ \E q \in Procs : Completes(q))]_vars

\* A listener is running in goroutine 1, a writer waits for it at the lock,
\* and a call of T that came after the writer is blocked
C12_Witness ==
    /\ TAt(1, "cb")
    /\ TAt(2, "rblocked")
    /\ IsWriter(3) /\ Top(3).pc = "wdrain"

(* ------------------------------------------------------------------ *)
(* C13                                                                 *)
(* ------------------------------------------------------------------ *)
\* Indices of the frames Callers inspects (walk position 2 is stack[3])
\* that are entry-point frames
EntryFrames(stack) ==
    {k \in (CallersStart + 1) .. Len(stack) : HasSuffix(stack[k].file, TraceGoSuffix)}
Min(S) == CHOOSE k \in S : \A j \in S : k <= j
\* Indices of the startup frames after index e
StartupAfter(stack, e) ==
    {k \in (e + 1) .. Len(stack) : HasSuffix(stack[k].file, ProcCSuffix)}
\* Index of the frame that ends the span that begins after index e
SpanEnd(stack, e) ==
    IF StartupAfter(stack, e) = {} THEN Len(stack) + 1 ELSE Min(StartupAfter(stack, e))
\* The locations of the frames strictly between indices e and s, in order
Span(stack, e, s) == [j \in 1 .. (s - e - 1) |-> Location(stack[e + j])]

\* C13: Callers returns for every frame sequence, and when a frame of
\* trace.go is at walk position 2 or later the result is exactly the
\* locations of the frames after the first such frame and before the first
\* startup frame after it (or the end of the stack), in walk order.
C13_SpanAfterEntryUpToStartup ==
    walk.done =>
        LET stack == walk.stack IN
        EntryFrames(stack) # {} =>
            LET e == Min(EntryFrames(stack))
            IN walk.res = Span(stack, e, SpanEnd(stack, e))

\* Callers returned two locations: a startup frame comes before the frame
\* of T, two frames follow it and a startup frame ends the span
C13_Witness ==
    /\ walk.done
    /\ Len(walk.stack) = 6
    /\ HasSuffix(walk.stack[3].file, ProcCSuffix)
    /\ walk.stack[4] = TFrame
    /\ walk.stack[5] # walk.stack[6]
    /\ walk.stack[5].file # ProcCFile
    /\ walk.stack[6].file # ProcCFile
    /\ walk.res = <<Location(walk.stack[5]), Location(walk.stack[6])>>

(* ------------------------------------------------------------------ *)
(* C14                                                                 *)
(* ------------------------------------------------------------------ *)
\* C14: when none of the frames Callers inspects is a frame of trace.go,
\* Callers returns the empty sequence, whatever the frames are.
C14_NoEntryFrameGivesEmpty ==
    (walk.done /\ EntryFrames(walk.stack) = {}) => walk.res = << >>

\* Callers returned the empty sequence for a stack with application and
\* startup frames at the inspected positions and no frame of trace.go
C14_Witness ==
    /\ walk.done
    /\ Len(walk.stack) = 5
    /\ EntryFrames(walk.stack) = {}
    /\ walk.stack[3] = Frame(AppFile, 42)
    /\ walk.stack[4] = Frame(OtherTraceGoFile, 88)
    /\ walk.stack[5] = Frame(ProcCFile, 220)
    /\ walk.res = << >>

(* ------------------------------------------------------------------ *)
(* C15                                                                 *)
(* ------------------------------------------------------------------ *)
\* the frames that hold a read lock: between RLock and the deferred RUnlock
Holding == {f \in TCalls : f.pc \in {"check", "loop", "cb"}}

\* C15: a call of T releases the read lock exactly once when it ends,
\* whether it ends at the test for the empty registry, after the loop or by
\* the failure of a listener, and at no other step; so when the calls of T
\* have ended no read lock is held, and a Register or Unregister that asks
\* for the write lock then gets it without waiting.
C15_ReadLockReleasedOnEveryExit ==
    /\ [](/\ readerCount = Cardinality(Holding)
          /\ \A f \in TCalls : Ended(f) => readerCount = 0
          /\ (\A p \in Procs : ~InCall(p)) => (readerCount = 0 /\ w = 0)
          /\ \A f \in AllCalls : f.pc \notin {"wdrain", "rblocked"})
    /\ [][\A p \in Procs :
            /\ (TAt(p, "check") \/ TAt(p, "loop") \/ TAt(p, "cb"))
                  => readerCount' = (IF TAtNext(p, "done")
                                     THEN readerCount - 1 ELSE readerCount)
            /\ (TAt(p, "done") /\ stk'[p] # stk[p])
                  => readerCount' = readerCount
            /\ (IsWriter(p) /\ Top(p).pc = "wlock" /\ stk'[p] # stk[p])
                  => stk'[p][Len(stk'[p])].pc = "wcs"]_vars

\* A call of T was ended by the failure of its second listener and holds no
\* read lock
C15_Witness ==
    \E f \in TCalls :
        /\ f.panicked
        /\ Ended(f)
        /\ Len(f.inv) = 2
        /\ readerCount = 0

\* A call of T has ended at the test for the empty registry and holds no
\* read lock
C15_WitnessEmpty ==
    \E f \in TCalls :
        /\ Ended(f)
        /\ listeners = << >>
        /\ readerCount = 0

(* ------------------------------------------------------------------ *)
(* C16                                                                 *)
(* ------------------------------------------------------------------ *)
\* the innermost call of goroutine p was made by a listener
Nested(p) == Len(stk[p]) >= 2
\* the call of T that runs that listener
Outer(p) == stk[p][Len(stk[p]) - 1]
NestedWriter(p) == Nested(p) /\ IsWriter(p)
NestedT(p) == Nested(p) /\ Top(p).op = "T"

\* C16: a Register or Unregister called by a listener never gets the write
\* lock: the call of T that runs the listener holds a read lock until the
\* listener returns, so the call waits at Lock, the listener does not
\* return and that call of T never ends.
C16_ListenerThatRegistersDeadlocks ==
    /\ [](\A p \in Procs :
            NestedWriter(p) =>
                /\ Top(p).pc \in {"wlock", "wdrain"}
                /\ Outer(p).op = "T" /\ Outer(p).pc = "cbwait"
                /\ readerCount >= 1
                /\ ~ENABLED (RegisterDo(p) \/ UnregisterDo(p) \/ WUnlock(p)
                                \/ Return(p) \/ TListenerResumes(p)))
    /\ [][\A p \in Procs :
            NestedWriter(p) =>
                /\ Len(stk'[p]) = Len(stk[p])
                /\ stk'[p][Len(stk[p]) - 1] = Outer(p)
                /\ stk'[p][Len(stk[p])].op = Top(p).op
                /\ listeners' = listeners]_vars

\* A listener has called Unregister with its own handle: the call is the
\* writer at the lock and waits for the read lock of the T that runs it
C16_Witness ==
    /\ NestedWriter(1)
    /\ Top(1).op = "Unregister"
    /\ Top(1).pc = "wdrain"
    /\ w = 1
    /\ readerCount = 1

(* ------------------------------------------------------------------ *)
(* C17                                                                 *)
(* ------------------------------------------------------------------ *)
\* C17: a call of T made by a listener asks for a second read lock while
\* the call of T that runs the listener holds the first.  With no writer at
\* the lock it gets it at once and goes on to its end; with a writer at the
\* lock it is blocked, that writer waits for the first read lock, and
\* neither moves again.
C17_NestedEmitBehindWriterDeadlocks ==
    /\ [](\A p \in Procs :
            NestedT(p) =>
                /\ Outer(p).op = "T" /\ Outer(p).pc = "cbwait"
                /\ readerCount >= 1
                /\ Top(p).pc \in {"check", "loop", "cb"} =>
                      /\ readerCount >= 2
                      /\ ENABLED (TCheck(p) \/ TLoop(p) \/ TListener(p))
                /\ Top(p).pc = "done" => ENABLED Return(p)
                /\ Top(p).pc = "rblocked" =>
                      /\ w # 0 /\ w # p
                      /\ IsWriter(w) /\ Top(w).pc = "wdrain"
                      /\ ~ENABLED WDrain(w))
    /\ [][\A p \in Procs :
            /\ (NestedT(p) /\ Top(p).pc = "rlock" /\ stk'[p] # stk[p]) =>
                  IF w = 0
                  THEN TAtNext(p, "check") /\ readerCount' = readerCount + 1
                  ELSE TAtNext(p, "rblocked") /\ readerCount' = readerCount
            /\ (NestedT(p) /\ Top(p).pc = "rblocked") =>
                  /\ stk'[p] = stk[p]
                  /\ w' = w
                  /\ w # 0 /\ stk'[w] = stk[w]
                  /\ readerCount' = readerCount]_vars

\* The call of T made by a listener is blocked behind a writer that waits
\* for the read lock of the T that runs the listener
C17_Witness ==
    /\ NestedT(1)
    /\ Top(1).pc = "rblocked"
    /\ w = 3
    /\ Top(3).pc = "wdrain"
    /\ readerCount = 1

\* The call of T made by a listener has invoked a listener of its own and
\* has ended, with two read locks held until then
C17_WitnessCompletes ==
    /\ NestedT(1)
    /\ Top(1).pc = "done"
    /\ Len(Top(1).inv) = 1
    /\ readerCount = 1
    /\ w = 0

(* ------------------------------------------------------------------ *)
(* C18                                                                 *)
(* ------------------------------------------------------------------ *)
\* C18: an entry subscribed to the empty path passes the path filter for
\* every path: the separator check is made only for a non-empty subscribed
\* path.  A call of T that returns has invoked every such entry whose
\* minimum priority is at most the emitted priority, whatever the path.
C18_EmptySubscriptionMatchesEveryPath ==
    /\ \A path \in EmitPaths \cup SubPaths, prio \in SubPrios :
          PathOk(path, Entry(1, Empty, prio, CbReturn))
    /\ \A f \in TCalls :
          Returned(f) =>
              \A k \in DOMAIN listeners :
                  (listeners[k].path = Empty /\ f.prio >= listeners[k].prio)
                      => listeners[k].h \in InvokedSet(f)

\* Two entries subscribed to the empty path were invoked for "net/http",
\* whose first character is not the separator
C18_Witness ==
    \E f \in TCalls :
        /\ Returned(f)
        /\ f.path = NetHttp
        /\ Len(listeners) = 2
        /\ \A k \in 1 .. 2 : listeners[k].path = Empty
        /\ Len(f.inv) = 2
====
